---- MODULE Spec2Model ----
(***************************************************************************)
(* The chimp voice simulation.  The store-based client: the zustand        *)
(* application store (store/appStore.ts), the useWebSocket hook that        *)
(* connects the store to the server (hooks/useWebSocket.ts), speech         *)
(* recognition (hooks/useSpeechRecognition.ts) and the three components     *)
(* that mount the hook (App, TextInput, MicrophoneButton).  The             *)
(* push-to-talk client: useSimulationSocket, useAudioStream and the App     *)
(* that holds Space to speak; a page runs one of the two clients.  The      *)
(* server's session registry, session pipeline and World State store, as   *)
(* the specification describes them.                                       *)
(*                                                                         *)
(* JavaScript values are encoded as follows.  Objects are records; the     *)
(* object-typed null is Null and undefined is Undefined.  Strings are      *)
(* strings, the string-typed null is NullStr.  Session identifiers are     *)
(* tuples: <<"srv", n>> is the identifier the registry returned for the    *)
(* n-th POST /api/session, <<"local", n>> the locally generated fallback.  *)
(* An array stored in a field that may also hold undefined is wrapped as   *)
(* [items |-> <<...>>].  A message is a record holding exactly the fields  *)
(* its JSON object carries.                                                *)
(*                                                                         *)
(* React is modelled with rendering atomic with the state change that      *)
(* causes it: the connect callback of the current render of instance i     *)
(* closes over the current store sessionId and the current isReconnecting  *)
(* of i.  A callback created by an earlier render keeps the values of that *)
(* render (a socket's handlers and a reconnect timer keep the closure of   *)
(* the connect() call that made them).                                     *)
(***************************************************************************)
EXTENDS Integers, Sequences, FiniteSets, TLC

VARIABLES
    store,                \* the zustand store: AppState's data fields
    nextId,               \* per log: number of entries generateId has stamped for it
    wsRef,                \* per hook instance: wsRef.current (socket id, 0 = null)
    reconnectTimeoutRef,  \* per hook instance: reconnectTimeoutRef.current (timer id, 0 = undefined)
    isReconnecting,       \* per hook instance: the isReconnecting React state
    sockets,              \* every WebSocket constructed so far, by id
    timers,               \* pending window.setTimeout reconnect timers
    pending,              \* connect() calls suspended at `await createSession()`
    nRequests,            \* number of POST /api/session requests issued
    nTimers,              \* number of timers ever scheduled (timer ids)
    mounted,              \* "no" before the mount effects ran, "yes", "unmounted"
    sent,                 \* messages handed to WebSocket.send, in order
    interimTranscript,    \* useSpeechRecognition's interimTranscript state
    sim,                  \* the push-to-talk client's useSimulationSocket hook
    audio,                \* the push-to-talk client's useAudioStream hook
    server,               \* the server's registry and sessions: passes, queues,
                          \* World States, messages sent, the registry's last reply
    lastOp,               \* what the last step was, when a claim is about such steps
    authoritative,        \* the state carried by the last world_state message whose
                          \* handling ran to its end, Null before the first one
    lastMsg,              \* the payload most recently given to ws.onmessage when that
                          \* was a world_state message, OtherPayload when it was not
    prevWorld,            \* worldState and mission as they were before that payload
    replayed              \* TRUE when that payload was a world_state message and the
                          \* payload before it was the same message

vars == <<store, nextId, wsRef, reconnectTimeoutRef, isReconnecting, sockets,
          timers, pending, nRequests, nTimers, mounted, sent, interimTranscript,
          sim, audio, server, lastOp, authoritative, lastMsg, prevWorld, replayed>>

----------------------------------------------------------------------------
(* Bounds of the model *)

MaxSockets == 3       \* WebSockets constructed in one behaviour
MaxRequests == 5      \* POST /api/session requests in one behaviour
MaxIds == 2           \* transcript entries created in one behaviour of SpecStore
MaxSteps == 1         \* reasoning steps created in one behaviour of SpecStore
MaxLogIds == 52       \* transcript entries created in one behaviour of SpecLog
MaxLogSteps == 22     \* reasoning steps created in one behaviour of SpecLog
MaxSent == 1          \* messages sent in one behaviour
MaxStoreSockets == 2  \* WebSockets constructed in one behaviour of SpecStore and SpecLog
MaxSimSent == 1       \* data sent by useSimulationSocket in one behaviour
MaxCalls == 1         \* startRecording() calls in one behaviour of SpecSend
MaxCaptures == 3      \* startRecording() calls in one behaviour of SpecAudio
MaxUtterances == 4     \* final transcripts the server receives in one behaviour
MaxAppSockets == 8     \* sockets in one behaviour of SpecReconnect
MaxSimSockets == 3     \* sockets in one behaviour of SpecSim
MaxChainSteps == 3     \* reasoning steps in one behaviour of SpecChain
MaxViewIds == 4        \* transcript entries in one behaviour of SpecView
MaxLiveUtterances == 3    \* final transcripts the server receives where every pass completes

(* Program constants *)

TranscriptKeep == 50  \* state.transcripts.slice(-50)
ReasoningKeep == 20   \* state.reasoningChain.slice(-20)

----------------------------------------------------------------------------
(* JavaScript values *)

Null == [null |-> TRUE]
Undefined == [undefined |-> TRUE]
NullStr == "null"
UndefinedStr == "undefined"
NullSid == <<"null">>
UndefinedSid == <<"undefined">>

\* !x for a session identifier
FalsySid(x) == x \in {NullSid, UndefinedSid}

\* !x for a string (null, undefined or "")
FalsyStr(x) == x \in {NullStr, ""}

\* Array.prototype.slice(-n)
SliceLast(seq, n) ==
    IF Len(seq) <= n THEN seq ELSE SubSeq(seq, Len(seq) - n + 1, Len(seq))

----------------------------------------------------------------------------
(* The store (store/appStore.ts).  Every operator takes the client state w  *)
(* (a record of all variables) and returns the client state after the call. *)

InitialStore ==
    [ sessionId      |-> NullSid,
      isConnected    |-> FALSE,
      worldState     |-> Null,
      mission        |-> Null,
      transcripts    |-> << >>,
      reasoningChain |-> << >>,
      lastAction     |-> Null,
      lastFeedback   |-> [items |-> << >>],
      npcDialogue    |-> NullStr,
      isRecording    |-> FALSE ]

setSessionId(w, id) == [w EXCEPT !.store.sessionId = id]

setConnected(w, connected) == [w EXCEPT !.store.isConnected = connected]

\* state.current_mission || null
MissionOf(state) ==
    IF "current_mission" \in DOMAIN state /\ state.current_mission # Null
    THEN state.current_mission
    ELSE Null

\* setWorldState that keeps the old mission when the new state has none
setWorldStateKeepMission(w, state) ==
    [w EXCEPT !.store.worldState = state,
              !.store.mission = IF MissionOf(state) # Null THEN MissionOf(state) ELSE @]

\* setWorldState that derives mission from the world state it is replacing
setWorldStateStaleMission(w, state) ==
    [w EXCEPT !.store.worldState = state, !.store.mission = MissionOf(w.store.worldState)]

setWorldState(w, state) ==
    [w EXCEPT !.store.worldState = state, !.store.mission = MissionOf(state)]

addTranscript(w, entry) ==
    [w EXCEPT
        !.store.transcripts =
            Append(SliceLast(@, TranscriptKeep),
                   [type |-> entry.type, text |-> entry.text,
                    id |-> w.nextId.transcripts + 1]),
        !.nextId.transcripts = @ + 1]

\* An addReasoningStep that also enters the step in the transcript log
addReasoningStepLogged(w, step) ==
    [w EXCEPT
        !.store.reasoningChain =
            Append(SliceLast(@, ReasoningKeep),
                   [agent |-> step.agent, step |-> step.step,
                    details |-> step.details, id |-> w.nextId.reasoningChain + 1]),
        !.nextId.reasoningChain = @ + 1,
        !.store.transcripts = Append(@, [type |-> "system", text |-> step.step, id |-> 0])]

addReasoningStep(w, step) ==
    [w EXCEPT
        !.store.reasoningChain =
            Append(SliceLast(@, ReasoningKeep),
                   [agent |-> step.agent, step |-> step.step,
                    details |-> step.details, id |-> w.nextId.reasoningChain + 1]),
        !.nextId.reasoningChain = @ + 1]

clearReasoningChain(w) == [w EXCEPT !.store.reasoningChain = << >>]

setLastAction(w, action, feedback) ==
    [w EXCEPT !.store.lastAction = action, !.store.lastFeedback = feedback]

setNpcDialogue(w, dialogue) == [w EXCEPT !.store.npcDialogue = dialogue]

setRecording(w, recording) == [w EXCEPT !.store.isRecording = recording]

\* reset(): no component calls it
reset(w) == [w EXCEPT !.store = InitialStore]

----------------------------------------------------------------------------
(* Messages the server may push (types/world.ts).  A payload is what       *)
(* ws.onmessage receives: [json |-> m] parses to the message m, any other  *)
(* payload makes JSON.parse throw.                                         *)

Missions == {[id |-> "m1", is_complete |-> FALSE]}

WorldStates ==
    { [world_time |-> "morning", current_mission |-> [id |-> "m1", is_complete |-> FALSE]],
      [world_time |-> "night", current_mission |-> Null],
      [world_time |-> "evening"] }

WorldStateMessages ==
    {[type |-> "world_state", state |-> s] : s \in WorldStates}
    \cup {[type |-> "world_state"]}

TranscriptMessages ==
    {[type |-> "transcript", text |-> x, is_final |-> TRUE] : x \in {"hello", ""}}

Buy == [intent |-> "buy_item"]
Greet == [intent |-> "greet"]

ActionResultMessages ==
    { [type |-> "action_result", parsed_action |-> Buy, feedback |-> <<"good">>,
       world_diff |-> [npc_dialogue |-> "Welcome", world_event |-> "sold"]],
      [type |-> "action_result", parsed_action |-> Greet, feedback |-> <<"good", "polite">>,
       world_diff |-> [npc_dialogue |-> NullStr, world_event |-> NullStr]],
      [type |-> "action_result", parsed_action |-> Greet, feedback |-> << >>,
       world_diff |-> [npc_dialogue |-> NullStr, world_event |-> "sold"]],
      [type |-> "action_result", parsed_action |-> Greet, feedback |-> <<"polite">>],
      [type |-> "action_result", parsed_action |-> Buy,
       world_diff |-> [npc_dialogue |-> "Welcome", world_event |-> NullStr]],
      [type |-> "action_result", parsed_action |-> Greet,
       world_diff |-> [npc_dialogue |-> NullStr, world_event |-> NullStr]] }

ReasoningMessages ==
    {[type |-> "reasoning", agent |-> "parser", step |-> "parse", details |-> "d"]}

ErrorMessages ==
    {[type |-> "error", message |-> "boom", recoverable |-> r] : r \in BOOLEAN}

NpcAudioMessages ==
    {[type |-> "npc_audio", audio_data |-> a, mood |-> "friendly"] : a \in {"UklGRg", "", "%%"}}

OtherMessages == {[type |-> "pong"], [type |-> "mission_complete"]}

Messages ==
    WorldStateMessages \cup TranscriptMessages \cup ActionResultMessages
    \cup ReasoningMessages \cup ErrorMessages \cup NpcAudioMessages \cup OtherMessages

Payloads == {[json |-> m] : m \in Messages} \cup {[text |-> "not json"]}

WorldStatePayloads == {[json |-> m] : m \in WorldStateMessages}

OtherPayload == [text |-> "other"]

\* Messages whose type has no case in handleMessage: a type of a later protocol
\* version, and the world_update message of the simulation server
UnknownMessages ==
    { [type |-> "mission_complete"],
      [type |-> "world_update", state |-> [world_time |-> "night", current_mission |-> Null]] }

\* atob(audio_data) succeeds (it throws on a string that is not base64)
Decodes(a) == a # "%%"

----------------------------------------------------------------------------
(* handleMessage and ws.onmessage (hooks/useWebSocket.ts) *)

\* message.world_diff?.f
WorldDiffField(m, f) ==
    IF "world_diff" \in DOMAIN m /\ f \in DOMAIN m.world_diff
    THEN m.world_diff[f]
    ELSE NullStr

\* message.feedback.forEach(fb => addTranscript({type: 'feedback', text: fb}))
RECURSIVE AddFeedback(_, _)
AddFeedback(w, fbs) ==
    IF fbs = << >> THEN w
    ELSE AddFeedback(addTranscript(w, [type |-> "feedback", text |-> Head(fbs)]), Tail(fbs))

\* case 'action_result' with the world event entered before the NPC dialogue
ActionResultHeadEventFirst(w, m) ==
    LET w1 == setLastAction(w,
                  IF "parsed_action" \in DOMAIN m THEN m.parsed_action ELSE Undefined,
                  IF "feedback" \in DOMAIN m THEN [items |-> m.feedback] ELSE Undefined)
        d  == WorldDiffField(m, "npc_dialogue")
        e  == WorldDiffField(m, "world_event")
        w2 == IF FalsyStr(e) THEN w1
              ELSE addTranscript(w1, [type |-> "system", text |-> e])
    IN  IF FalsyStr(d) THEN w2
        ELSE addTranscript(setNpcDialogue(w2, d), [type |-> "npc", text |-> d])

\* case 'action_result', up to the statement that reads message.feedback
ActionResultHead(w, m) ==
    LET w1 == setLastAction(w,
                  IF "parsed_action" \in DOMAIN m THEN m.parsed_action ELSE Undefined,
                  IF "feedback" \in DOMAIN m THEN [items |-> m.feedback] ELSE Undefined)
        d  == WorldDiffField(m, "npc_dialogue")
        e  == WorldDiffField(m, "world_event")
        w2 == IF FalsyStr(d) THEN w1
              ELSE addTranscript(setNpcDialogue(w1, d), [type |-> "npc", text |-> d])
    IN  IF FalsyStr(e) THEN w2
        ELSE addTranscript(w2, [type |-> "system", text |-> e])

\* TRUE when handleMessage(m) throws: setWorldState reads state.current_mission of an
\* absent state, and message.feedback.forEach is called on an absent feedback
Throws(m) ==
    \/ m.type = "world_state" /\ "state" \notin DOMAIN m
    \/ m.type = "action_result" /\ "feedback" \notin DOMAIN m

\* case 'npc_audio' with the mood shown as the NPC's line
npcAudioAsDialogue(w, m) == setNpcDialogue(w, m.mood)

\* case 'npc_audio': when audio_data is not empty an Audio element is made of it and
\* play() is called and not awaited; a failure to decode is caught and logged, a
\* failure to play is logged by the promise's catch.  No store action is called.
npcAudio(w, m) == w

\* The client state after handleMessage(m) returned or threw
handleMessage(w, m) ==
    CASE m.type = "world_state" ->
            IF "state" \in DOMAIN m THEN setWorldState(w, m.state) ELSE w
      [] m.type = "transcript" ->
            IF FalsyStr(m.text) THEN w
            ELSE addTranscript(w, [type |-> "player", text |-> m.text])
      [] m.type = "action_result" ->
            IF "feedback" \in DOMAIN m
            THEN AddFeedback(ActionResultHead(w, m), m.feedback)
            ELSE ActionResultHead(w, m)
      [] m.type = "reasoning" ->
            addReasoningStep(w, [agent |-> m.agent, step |-> m.step, details |-> m.details])
      [] m.type = "npc_audio" -> npcAudio(w, m)
      [] m.type = "error" ->
            addTranscript(w, [type |-> "system", text |-> "Error: " \o m.message])
      [] OTHER -> w

\* ws.onmessage with a switch whose default case reports the message as an error
onmessageDefaultError(w, data) ==
    IF "json" \notin DOMAIN data THEN w
    ELSE IF data.json.type \in {"world_state", "transcript", "action_result", "reasoning",
                                "npc_audio", "error", "pong"}
         THEN handleMessage(w, data.json)
         ELSE addTranscript(w, [type |-> "system", text |-> "Error: unknown message"])

\* ws.onmessage with a catch that gives the connection up
onmessageCatchDisconnects(w, data) ==
    IF "json" \in DOMAIN data THEN handleMessage(w, data.json) ELSE setConnected(w, FALSE)

\* ws.onmessage: JSON.parse and handleMessage inside one try/catch that only logs
onmessage(w, data) ==
    IF "json" \in DOMAIN data THEN handleMessage(w, data.json) ELSE w

\* The message types handleMessage has a case for
KnownTypes == {"world_state", "transcript", "action_result", "reasoning", "npc_audio",
               "error", "pong"}

\* What a step that handles payload `data` is recorded as
NoOp == "none"

Kind(data) ==
    IF "json" \notin DOMAIN data THEN "unparseable"
    ELSE IF data.json.type \notin KnownTypes THEN "unknown"
    ELSE IF data.json.type = "npc_audio" /\ ~Decodes(data.json.audio_data) THEN "npc_audio_failed"
    ELSE IF data.json.type \in {"npc_audio", "error", "pong"} THEN data.json.type
    ELSE NoOp

\* TRUE when `data` is a world_state message that carries a state
Carries(data) ==
    "json" \in DOMAIN data /\ data.json.type = "world_state" /\ "state" \in DOMAIN data.json

----------------------------------------------------------------------------
(* The client state as one value, and its assignment to the variables *)

W ==
    [ store |-> store, nextId |-> nextId, wsRef |-> wsRef,
      reconnectTimeoutRef |-> reconnectTimeoutRef, isReconnecting |-> isReconnecting,
      sockets |-> sockets, timers |-> timers, pending |-> pending,
      nRequests |-> nRequests, nTimers |-> nTimers, mounted |-> mounted, sent |-> sent,
      interimTranscript |-> interimTranscript ]

Commit(w) ==
    /\ store' = w.store
    /\ nextId' = w.nextId
    /\ wsRef' = w.wsRef
    /\ reconnectTimeoutRef' = w.reconnectTimeoutRef
    /\ isReconnecting' = w.isReconnecting
    /\ sockets' = w.sockets
    /\ timers' = w.timers
    /\ pending' = w.pending
    /\ nRequests' = w.nRequests
    /\ nTimers' = w.nTimers
    /\ mounted' = w.mounted
    /\ sent' = w.sent
    /\ interimTranscript' = w.interimTranscript
    /\ UNCHANGED <<sim, audio, server>>

----------------------------------------------------------------------------
(* useWebSocket (hooks/useWebSocket.ts) *)

\* The components that call useWebSocket(), in the order their mount effects run
\* (children before the parent)
MountOrder == <<"TextInput", "MicrophoneButton", "App">>

Instances == {MountOrder[k] : k \in DOMAIN MountOrder}

\* What the connect callback of the current render of instance i closes over
Closure(w, i) ==
    [sessionId |-> w.store.sessionId, isReconnecting |-> w.isReconnecting[i]]

\* wsRef.current?.readyState === WebSocket.OPEN
IsOpen(w, i) == w.wsRef[i] # 0 /\ w.sockets[w.wsRef[i]].readyState = "OPEN"

\* const ws = new WebSocket(`${WS_URL}/${sid}`); wsRef.current = ws; handlers set
NewWebSocket(w, i, sid, c) ==
    [w EXCEPT
        !.sockets = Append(@, [owner |-> i, sid |-> sid,
                               readyState |-> "CONNECTING", closure |-> c]),
        !.wsRef[i] = Len(w.sockets) + 1]

\* connect() of closure c, up to its first await (or to its end when it does not await)
connect(w, i, c) ==
    IF IsOpen(w, i) THEN w
    ELSE IF FalsySid(c.sessionId)
         THEN [w EXCEPT !.nRequests = @ + 1,
                        !.pending = @ \cup {[id |-> w.nRequests + 1, inst |-> i, closure |-> c]}]
         ELSE NewWebSocket(w, i, c.sessionId, c)

\* What createSession() resolves to for request n: the registry's session_id, the
\* session_id of a JSON answer that has none, or the local fallback of the catch
createSession(n, outcome) ==
    CASE outcome = "session_id" -> <<"srv", n>>
      [] outcome = "no_session_id" -> UndefinedSid
      [] outcome = "failed" -> <<"local", n>>

\* connect() from the point where `await createSession()` resolves
connectResume(w, p, outcome) ==
    LET sid == createSession(p.id, outcome)
        w1  == setSessionId([w EXCEPT !.pending = @ \ {p}], sid)
    IN  NewWebSocket(w1, p.inst, sid, p.closure)

\* App's useEffect(() => { connect(); }, [connect]): it runs again after a render in
\* which connect changed, that is when sessionId or App's isReconnecting changed
AppEffect(before, after) ==
    IF after.mounted = "yes" /\ Closure(after, "App") # Closure(before, "App")
    THEN connect(after, "App", Closure(after, "App"))
    ELSE after

\* setIsReconnecting(v) of instance i (ignored once the component is unmounted)
setIsReconnecting(w, i, v) ==
    IF w.mounted = "yes" THEN [w EXCEPT !.isReconnecting[i] = v] ELSE w

\* ws.onopen of socket s
onopen(w, s) ==
    setIsReconnecting(setConnected([w EXCEPT !.sockets[s].readyState = "OPEN"], TRUE),
                      w.sockets[s].owner, FALSE)

\* A ws.onclose that also empties the reasoning chain
oncloseClearsChain(w, s) ==
    clearReasoningChain(setConnected([w EXCEPT !.sockets[s].readyState = "CLOSED"], FALSE))

\* ws.onclose of socket s: the handler reads the isReconnecting of its closure
onclose(w, s) ==
    LET sk == w.sockets[s]
        w1 == setConnected([w EXCEPT !.sockets[s].readyState = "CLOSED"], FALSE)
    IN  IF sk.closure.isReconnecting THEN w1
        ELSE [setIsReconnecting(w1, sk.owner, TRUE) EXCEPT
                !.nTimers = @ + 1,
                !.timers = @ \cup {[id |-> w.nTimers + 1, inst |-> sk.owner,
                                    closure |-> sk.closure]},
                !.reconnectTimeoutRef[sk.owner] = w.nTimers + 1]

\* disconnect() that also resets the store
disconnectAndReset(w, i) ==
    LET w1 == IF w.reconnectTimeoutRef[i] # 0
              THEN [w EXCEPT !.timers = {t \in @ : t.id # w.reconnectTimeoutRef[i]}]
              ELSE w
        s  == w.wsRef[i]
        w2 == IF s # 0
              THEN [w1 EXCEPT
                      !.sockets[s].readyState =
                          IF @ \in {"CONNECTING", "OPEN"} THEN "CLOSING" ELSE @,
                      !.wsRef[i] = 0]
              ELSE w1
    IN  reset(w2)

\* disconnect() of instance i
disconnect(w, i) ==
    LET w1 == IF w.reconnectTimeoutRef[i] # 0
              THEN [w EXCEPT !.timers = {t \in @ : t.id # w.reconnectTimeoutRef[i]}]
              ELSE w
        s  == w.wsRef[i]
        w2 == IF s # 0
              THEN [w1 EXCEPT
                      !.sockets[s].readyState =
                          IF @ \in {"CONNECTING", "OPEN"} THEN "CLOSING" ELSE @,
                      !.wsRef[i] = 0]
              ELSE w1
    IN  setConnected(w2, FALSE)

\* sendTranscript with the reasoning chain cleared before the socket is looked at
sendTranscriptClearFirst(w, i, text, isFinal) ==
    LET w1 == IF isFinal THEN clearReasoningChain(w) ELSE w
    IN  IF ~IsOpen(w, i) THEN w1
        ELSE [w1 EXCEPT !.sent = Append(@, [socket |-> w.wsRef[i], type |-> "transcript",
                                            text |-> text, is_final |-> isFinal])]

\* sendTranscript that clears the reasoning chain whatever isFinal is
sendTranscriptAlwaysClears(w, i, text, isFinal) ==
    IF ~IsOpen(w, i) THEN w
    ELSE [clearReasoningChain(w) EXCEPT
            !.sent = Append(@, [socket |-> w.wsRef[i], type |-> "transcript",
                                text |-> text, is_final |-> isFinal])]

\* sendTranscript(text, isFinal) of instance i
sendTranscript(w, i, text, isFinal) ==
    IF ~IsOpen(w, i) THEN w
    ELSE LET w1 == IF isFinal THEN clearReasoningChain(w) ELSE w
         IN  [w1 EXCEPT !.sent = Append(@, [socket |-> w.wsRef[i], type |-> "transcript",
                                            text |-> text, is_final |-> isFinal])]

\* sendPing() that gives the connection up when a ping is already out on the socket
sendPingOrGiveUp(w, i) ==
    IF ~IsOpen(w, i) THEN w
    ELSE IF \E k \in DOMAIN w.sent : w.sent[k] = [socket |-> w.wsRef[i], type |-> "ping"]
         THEN disconnect(w, i)
         ELSE [w EXCEPT !.sent = Append(@, [socket |-> w.wsRef[i], type |-> "ping"])]

\* sendPing() of instance i
sendPing(w, i) ==
    IF IsOpen(w, i)
    THEN [w EXCEPT !.sent = Append(@, [socket |-> w.wsRef[i], type |-> "ping"])]
    ELSE w

----------------------------------------------------------------------------
(* Components (components/UI.tsx) *)

\* text.trim(), for the texts of the model
Trim(text) == IF text = " " THEN "" ELSE text

\* TextInput.handleSubmit with the input holding `text`
handleSubmit(w, text) ==
    IF Trim(text) # "" /\ w.store.isConnected
    THEN sendTranscript(addTranscript(w, [type |-> "player", text |-> Trim(text)]),
                        "TextInput", Trim(text), TRUE)
    ELSE w

\* MicrophoneButton.handleTranscript
handleTranscript(w, text, isFinal) ==
    IF isFinal /\ Trim(text) # ""
    THEN sendTranscript(addTranscript(w, [type |-> "player", text |-> Trim(text)]),
                        "MicrophoneButton", Trim(text), TRUE)
    ELSE w

\* useSpeechRecognition's toggleRecording: stopRecording() when the store says
\* recording, else startRecording(), whose recognition.start() succeeds (`started`)
\* or throws into a catch that logs
toggleRecording(w, started) ==
    IF w.store.isRecording THEN [setRecording(w, FALSE) EXCEPT !.interimTranscript = ""]
    ELSE IF started THEN [setRecording(w, TRUE) EXCEPT !.interimTranscript = ""]
    ELSE w

\* useSpeechRecognition's recognition.onerror
recognitionOnerror(w) == setRecording(w, FALSE)

\* useSpeechRecognition's recognition.onresult for an event whose non-final results
\* concatenate to `interim` and whose final results concatenate to `final`
onresult(w, interim, final) ==
    LET w1 == IF interim # "" THEN [w EXCEPT !.interimTranscript = interim] ELSE w
    IN  IF final # ""
        THEN handleTranscript([w1 EXCEPT !.interimTranscript = ""], Trim(final), TRUE)
        ELSE w1

----------------------------------------------------------------------------
(* useSimulationSocket (hooks/useSimulationSocket.ts), the socket hook of the       *)
(* push-to-talk client.  sim.sockets holds every WebSocket the hook constructed,    *)
(* sim.ws is ws.current (0 = null), sim.sent the data handed to WebSocket.send.     *)

WS_URL == "ws://127.0.0.1:8000/ws/simulation"

InitialSim ==
    [ mounted |-> "no", url |-> WS_URL, ws |-> 0, sockets |-> << >>,
      isConnected |-> FALSE, worldState |-> Null, feedback |-> NullStr, sent |-> << >> ]

\* Messages the simulation server sends, and payloads that carry them
SimStates == {[timestamp |-> n] : n \in {1, 2}}

SimMessages ==
    {[type |-> "world_update", state |-> s, feedback |-> "good"] : s \in SimStates}
        \cup {[type |-> "world_update", state |-> s] : s \in SimStates}
        \cup { [type |-> "world_update"],
               [type |-> "agent_message", text |-> "hi"],
               [type |-> "error", message |-> "boom"],
               [type |-> "mission_complete"],
               [type |-> "world_state", state |-> [timestamp |-> 2]] }

SimPayloads == {[json |-> m] : m \in SimMessages} \cup {[text |-> "not json"]}

\* The body of useEffect(..., [url]): a socket for the url of the current render
useEffectUrl(m) ==
    [m EXCEPT !.sockets = Append(@, [url |-> m.url, readyState |-> "CONNECTING"]),
              !.ws = Len(m.sockets) + 1]

\* The cleanup of that effect: socket.close() on the socket the effect made
cleanupUrl(m) ==
    IF m.ws = 0 THEN m
    ELSE [m EXCEPT !.sockets[m.ws].readyState =
                        IF @ \in {"CONNECTING", "OPEN"} THEN "CLOSING" ELSE @]

\* setIsConnected(v): a state setter does nothing once the component is unmounted
setIsConnected(m, v) == IF m.mounted = "yes" THEN [m EXCEPT !.isConnected = v] ELSE m

\* socket.onopen and socket.onclose of socket s
socketOnopen(m, s) == setIsConnected([m EXCEPT !.sockets[s].readyState = "OPEN"], TRUE)

socketOnclose(m, s) == setIsConnected([m EXCEPT !.sockets[s].readyState = "CLOSED"], FALSE)

\* socket.onmessage: JSON.parse and the if/else chain inside one try/catch
socketOnmessage(m, data) ==
    IF "json" \notin DOMAIN data \/ m.mounted # "yes" THEN m
    ELSE LET d == data.json
         IN  CASE d.type = "world_update" ->
                    [m EXCEPT !.worldState = IF "state" \in DOMAIN d THEN d.state ELSE Undefined,
                              !.feedback = IF "feedback" \in DOMAIN d THEN d.feedback ELSE @]
               [] d.type = "agent_message" ->
                    [m EXCEPT !.feedback = IF "text" \in DOMAIN d THEN d.text ELSE UndefinedStr]
               [] OTHER -> m

\* ws.current && ws.current.readyState === WebSocket.OPEN
SimIsOpen(m) == m.ws # 0 /\ m.sockets[m.ws].readyState = "OPEN"

sendAudio(m, data) ==
    IF SimIsOpen(m) THEN [m EXCEPT !.sent = Append(@, [socket |-> m.ws, binary |-> data])]
    ELSE m

sendMessage(m, text) ==
    IF SimIsOpen(m)
    THEN [m EXCEPT !.sent = Append(@, [socket |-> m.ws, json |-> [text |-> text]])]
    ELSE m

sendJSON(m, payload) ==
    IF SimIsOpen(m) THEN [m EXCEPT !.sent = Append(@, [socket |-> m.ws, json |-> payload])]
    ELSE m

----------------------------------------------------------------------------
(* useAudioStream (hooks/useAudioStream.ts).  Every startRecording() call has a     *)
(* number n; the MediaStream, AudioContext and ScriptProcessorNode it creates are   *)
(* named n as well.  audio.tracks, audio.contexts and audio.processors are the      *)
(* streams whose tracks are live, the contexts that are not closed and the          *)
(* processors that are connected; audio.starting holds the calls suspended at       *)
(* `await getUserMedia()`.  A ref of 0 is null.                                      *)

InitialAudio ==
    [ isRecording |-> FALSE, streamRef |-> 0, audioContextRef |-> 0, processorRef |-> 0,
      tracks |-> {}, contexts |-> {}, processors |-> {}, starting |-> {}, nCalls |-> 0,
      held |-> FALSE ]

\* startRecording() up to `await navigator.mediaDevices.getUserMedia()`
startRecording(a) ==
    [a EXCEPT !.nCalls = @ + 1, !.starting = @ \cup {a.nCalls + 1}]

\* How the rest of startRecording() can go: getUserMedia rejects; `new AudioContext`
\* throws; createMediaStreamSource or createScriptProcessor throws; nothing throws
CaptureOutcomes == {"denied", "no_context", "no_processor", "recording"}

\* startRecording() call n from the point where getUserMedia settles, to its end or
\* to the statement that throws (the catch only logs)
startRecordingResume(a, n, outcome) ==
    LET a0 == [a EXCEPT !.starting = @ \ {n}]
        a1 == [a0 EXCEPT !.streamRef = n, !.tracks = @ \cup {n}]
        a2 == [a1 EXCEPT !.audioContextRef = n, !.contexts = @ \cup {n}]
        a3 == [a2 EXCEPT !.processorRef = n, !.processors = @ \cup {n}, !.isRecording = TRUE]
    IN  CASE outcome = "denied" -> a0
          [] outcome = "no_context" -> a1
          [] outcome = "no_processor" -> a2
          [] outcome = "recording" -> a3

\* stopRecording()
stopRecording(a) ==
    [a EXCEPT !.processors = @ \ {a.processorRef}, !.processorRef = 0,
              !.contexts = @ \ {a.audioContextRef}, !.audioContextRef = 0,
              !.tracks = @ \ {a.streamRef}, !.streamRef = 0,
              !.isRecording = FALSE]

----------------------------------------------------------------------------
(* The push-to-talk App (App.tsx of the simulation client): hold Space to speak *)

\* handleKeyDown for an event with code 'Space' and repeat = false
handleKeyDown(a) == IF ~a.isRecording THEN startRecording(a) ELSE a

\* handleKeyUp for an event with code 'Space'; the pair is <<audio, sim>>
handleKeyUp(a, m) ==
    IF a.isRecording THEN <<stopRecording(a), sendJSON(m, [type |-> "commit"])>> ELSE <<a, m>>

----------------------------------------------------------------------------
(* The server's Session Registry, Session Pipeline and World State Store.  The       *)
(* server's code is not part of the sources at hand (server/README.md lists its      *)
(* endpoints and messages); this section follows the specification's sections 4.2,   *)
(* 4.3, 4.4, 5 and 7.  Final transcripts are numbered as they arrive.                *)
(* server.registry holds the identifiers of the live sessions and server.deleted     *)
(* the identifiers that were deleted; server.inFlight[s] holds the passes of         *)
(* session s that are in flight, each [utterance, stage, base]; server.queue[s]      *)
(* the final transcripts waiting; server.writes[s] the diffs applied to the World    *)
(* State of s, each with the pass that wrote it and the number of writes its         *)
(* Execute stage saw when it read the World State; server.world[s] the World State   *)
(* of s, each field holding the utterance whose diff wrote it last; server.emitted   *)
(* the messages the last step sent to a client, and server.reply the outcome of the  *)
(* last call of the registry.                                                       *)

Sessions == {"s1", "s2"}

\* The fields of a World State that a WorldDiff changes, in the order it is applied
WorldFields == <<"player", "mission">>

InitialWorld == [f \in {WorldFields[i] : i \in DOMAIN WorldFields} |-> 0]

NoReply == [op |-> "none"]

InitialServer ==
    [ nUtterances |-> 0,
      registry |-> {},
      deleted |-> {},
      inFlight |-> [s \in Sessions |-> {}],
      queue |-> [s \in Sessions |-> << >>],
      writes |-> [s \in Sessions |-> << >>],
      world |-> [s \in Sessions |-> InitialWorld],
      emitted |-> << >>,
      reply |-> NoReply ]

\* Every step starts with nothing sent and nothing replied
quiet(v) == [v EXCEPT !.emitted = << >>, !.reply = NoReply]

\* create() registers an identifier that was never used before
create(v, id) ==
    [quiet(v) EXCEPT !.registry = @ \cup {id},
                     !.reply = [op |-> "create", id |-> id, outcome |-> "ok"]]

\* get(id) answers with the session or with not-found
get(v, id) ==
    [quiet(v) EXCEPT !.reply = [op |-> "get", id |-> id,
                                outcome |-> IF id \in v.registry THEN "session"
                                            ELSE "not_found"]]

\* A delete that tears every session down when the identifier is not registered
deleteOrClear(v, id) ==
    IF id \in v.registry
    THEN [quiet(v) EXCEPT !.registry = @ \ {id}, !.deleted = @ \cup {id},
                          !.writes[id] = << >>, !.world[id] = InitialWorld,
                          !.reply = [op |-> "delete", id |-> id, outcome |-> "ok"]]
    ELSE [InitialServer EXCEPT !.nUtterances = v.nUtterances,
                               !.deleted = v.deleted \cup v.registry,
                               !.reply = [op |-> "delete", id |-> id,
                                          outcome |-> "not_found"]]

\* delete(id) removes a registered session with its state, and answers not-found for
\* an identifier that is not registered
delete(v, id) ==
    IF id \in v.registry
    THEN [quiet(v) EXCEPT !.registry = @ \ {id}, !.deleted = @ \cup {id},
                          !.writes[id] = << >>, !.world[id] = InitialWorld,
                          !.reply = [op |-> "delete", id |-> id, outcome |-> "ok"]]
    ELSE [quiet(v) EXCEPT !.reply = [op |-> "delete", id |-> id,
                                     outcome |-> "not_found"]]

\* A pass for utterance n of session s starts at the Interpret stage
startPass(v, s, n) ==
    [v EXCEPT !.inFlight[s] = @ \cup {[utterance |-> n, stage |-> "interpret", base |-> 0]}]

\* A transcript message that starts a pass for every final transcript at once
transcriptNoQueue(v, s, isFinal) ==
    IF ~isFinal THEN quiet(v)
    ELSE startPass([quiet(v) EXCEPT !.nUtterances = @ + 1], s, v.nUtterances + 1)

\* A transcript message arrives for session s: one that is not final enters nothing;
\* a final one starts a pass, or waits in the queue while a pass is in flight
transcript(v, s, isFinal) ==
    IF ~isFinal THEN quiet(v)
    ELSE LET n  == v.nUtterances + 1
             v1 == [quiet(v) EXCEPT !.nUtterances = n]
         IN  IF v.inFlight[s] = {} THEN startPass(v1, s, n)
             ELSE [v1 EXCEPT !.queue[s] = Append(@, n)]

\* Pass p of session s moves to the next stage
toStage(v, s, p, stage) ==
    [quiet(v) EXCEPT !.inFlight[s] = (@ \ {p}) \cup {[p EXCEPT !.stage = stage]}]

\* Interpret, then Verify (a failed verification does not abort the pass)
interpret(v, s, p) == toStage(v, s, p, "verify")

verify(v, s, p) == toStage(v, s, p, "execute")

\* Execute: the execution collaborator is given the current World State and computes
\* the diff; applyDiff then applies the diff
execute(v, s, p) ==
    [quiet(v) EXCEPT !.inFlight[s] =
        (@ \ {p}) \cup {[p EXCEPT !.stage = "apply", !.base = Len(v.writes[s])]}]

\* A pass that ends by handing the lock to the newest transcript of the queue
endPassNewestFirst(v, s, p) ==
    LET v1 == [quiet(v) EXCEPT !.inFlight[s] = @ \ {p}]
        q  == v.queue[s]
    IN  IF q = << >> THEN v1
        ELSE startPass([v1 EXCEPT !.queue[s] = SubSeq(q, 1, Len(q) - 1)], s, q[Len(q)])

\* The pass ends and releases the session; the transcript at the head of the queue,
\* if there is one, starts the next pass
endPass(v, s, p) ==
    LET v1 == [quiet(v) EXCEPT !.inFlight[s] = @ \ {p}]
    IN  IF v.queue[s] = << >> THEN v1
        ELSE startPass([v1 EXCEPT !.queue[s] = Tail(@)], s, Head(v.queue[s]))

\* The error message of a failure names the stage that failed
ErrorMessage(s, p) ==
    [to |-> s, type |-> "error", message |-> p.stage, recoverable |-> TRUE]

\* A collaborator failure that takes the session down with it
failEndsSession(v, s, p) ==
    [quiet(v) EXCEPT !.registry = @ \ {s}, !.deleted = @ \cup {s},
                     !.inFlight[s] = {}, !.queue[s] = << >>,
                     !.emitted = <<[ErrorMessage(s, p) EXCEPT !.recoverable = FALSE]>>]

\* A collaborator failure is caught and converted to an error message with a
\* recoverable flag; the pass ends
fail(v, s, p) == [endPass(v, s, p) EXCEPT !.emitted = <<ErrorMessage(s, p)>>]

\* The World State with the first k fields of the diff of pass p written
written(world, p, k) ==
    [f \in DOMAIN world |->
        IF \E i \in 1..k : WorldFields[i] = f THEN p.utterance ELSE world[f]]

\* An applyDiff that writes the fields into the World State itself, one by one
applyDiffInPlace(v, s, p, k) ==
    IF k = Len(WorldFields)
    THEN [toStage(v, s, p, "broadcast") EXCEPT
            !.world[s] = written(v.world[s], p, k),
            !.writes[s] = Append(@, [utterance |-> p.utterance, base |-> p.base])]
    ELSE [fail(v, s, p) EXCEPT !.world[s] = written(v.world[s], p, k)]

\* applyDiff writes the diff's fields to a copy of the World State and then swaps
\* the copy in; when the apply fails after k fields, the copy is dropped and the
\* failure is reported as any execution failure is
applyDiff(v, s, p, k) ==
    LET copy == written(v.world[s], p, k)
    IN  IF k = Len(WorldFields)
        THEN [toStage(v, s, p, "broadcast") EXCEPT
                !.world[s] = copy,
                !.writes[s] = Append(@, [utterance |-> p.utterance, base |-> p.base])]
        ELSE fail(v, s, p)

\* Broadcast sends the action result and the World State, and ends the pass
broadcast(v, s, p) ==
    [endPass(v, s, p) EXCEPT
        !.emitted = <<[to |-> s, type |-> "action_result"],
                      [to |-> s, type |-> "world_state", state |-> v.world[s]]>>]

----------------------------------------------------------------------------
(* Initial state: the store as created, the components rendered once and no *)
(* effect run yet.                                                          *)

Init ==
    /\ store = InitialStore
    /\ nextId = [transcripts |-> 0, reasoningChain |-> 0]
    /\ wsRef = [i \in Instances |-> 0]
    /\ reconnectTimeoutRef = [i \in Instances |-> 0]
    /\ isReconnecting = [i \in Instances |-> FALSE]
    /\ sockets = << >>
    /\ timers = {}
    /\ pending = {}
    /\ nRequests = 0
    /\ nTimers = 0
    /\ mounted = "no"
    /\ sent = << >>
    /\ interimTranscript = ""
    /\ sim = InitialSim
    /\ audio = InitialAudio
    /\ server = InitialServer
    /\ lastOp = NoOp
    /\ authoritative = Null
    /\ lastMsg = OtherPayload
    /\ prevWorld = [worldState |-> Null, mission |-> Null]
    /\ replayed = FALSE

\* An event handler ran to its end and took the client from W to w; App's effect
\* follows the render the handler caused
StepAs(w, op) ==
    /\ Commit(AppEffect(W, w))
    /\ lastOp' = op
    /\ UNCHANGED <<authoritative, lastMsg, prevWorld, replayed>>

Step(w) == StepAs(w, NoOp)

\* The mount effects: useWebSocket's `connect()` of each instance, children first,
\* then App's own `connect()` effect
mountEffects(w) ==
    LET w1 == connect(w, "TextInput", Closure(w, "TextInput"))
        w2 == connect(w1, "MicrophoneButton", Closure(w1, "MicrophoneButton"))
        w3 == connect(w2, "App", Closure(w2, "App"))
        w4 == connect(w3, "App", Closure(w3, "App"))
    IN  [w4 EXCEPT !.mounted = "yes"]

Mount ==
    /\ mounted = "no"
    /\ sim.mounted = "no"
    /\ Commit(mountEffects(W))
    /\ lastOp' = NoOp
    /\ UNCHANGED <<authoritative, lastMsg, prevWorld, replayed>>

\* The answer to a POST /api/session arrives (or the request fails)
CreateSessionDone(p, outcome) ==
    /\ p \in pending
    /\ Step(connectResume(W, p, outcome))

\* The browser reports socket s open
SocketOpen(s) ==
    /\ s \in DOMAIN sockets
    /\ sockets[s].readyState = "CONNECTING"
    /\ Step(onopen(W, s))

\* The browser reports socket s closed (the server or the network closed it, the
\* connection attempt failed, or close() completed)
SocketClose(s) ==
    /\ s \in DOMAIN sockets
    /\ sockets[s].readyState # "CLOSED"
    /\ Step(onclose(W, s))

\* A reconnect timer fires: connect() of the closure that scheduled it
ReconnectTimer(t) ==
    /\ t \in timers
    /\ Step(connect([W EXCEPT !.timers = @ \ {t}], t.inst, t.closure))

\* The cleanup of the mount effect of every instance
unmountEffects(w) ==
    LET w1 == disconnect(w, "TextInput")
        w2 == disconnect(w1, "MicrophoneButton")
        w3 == disconnect(w2, "App")
    IN  [w3 EXCEPT !.mounted = "unmounted"]

Unmount ==
    /\ mounted = "yes"
    /\ Commit(unmountEffects(W))
    /\ lastOp' = NoOp
    /\ UNCHANGED <<authoritative, lastMsg, prevWorld, replayed>>

\* A payload arrives on a socket that can deliver one (every socket has the same
\* onmessage handler, which does not read the socket)
Receive(data) ==
    /\ \E s \in DOMAIN sockets : sockets[s].readyState \in {"OPEN", "CLOSING"}
    /\ Commit(AppEffect(W, onmessage(W, data)))
    /\ lastOp' = Kind(data)
    /\ authoritative' = IF Carries(data) THEN data.json.state ELSE authoritative
    /\ lastMsg' = IF data \in WorldStatePayloads THEN data ELSE OtherPayload
    /\ prevWorld' = [worldState |-> store.worldState, mission |-> store.mission]
    /\ replayed' = (data \in WorldStatePayloads /\ data = lastMsg)

\* What a step that calls a send function of instance i is recorded as
SendOp(i) == IF IsOpen(W, i) THEN "sent" ELSE "dropped"

\* The user submits the text input
Submit(text) ==
    /\ mounted = "yes"
    /\ StepAs(handleSubmit(W, text),
              IF Trim(text) # "" /\ store.isConnected THEN SendOp("TextInput") ELSE NoOp)

\* Speech recognition delivers an event with one result
SpeechResult(text, isFinal) ==
    /\ mounted = "yes"
    /\ StepAs(IF isFinal THEN onresult(W, "", text) ELSE onresult(W, text, ""),
              IF Trim(text) = "" THEN NoOp
              ELSE IF isFinal THEN SendOp("MicrophoneButton") ELSE "interim")

\* The user clicks the microphone button
ToggleRecording(started) ==
    /\ mounted = "yes"
    /\ Step(toggleRecording(W, started))

\* Speech recognition reports an error
RecognitionError ==
    /\ mounted = "yes"
    /\ Step(recognitionOnerror(W))

\* The 30 s heartbeat interval of instance i ticks
Heartbeat(i) ==
    /\ mounted = "yes"
    /\ StepAs(sendPing(W, i), IF IsOpen(W, i) THEN "ping" ELSE "ping_dropped")

----------------------------------------------------------------------------
(* Steps of the push-to-talk client *)

wsVars == <<store, nextId, wsRef, reconnectTimeoutRef, isReconnecting, sockets, timers,
            pending, nRequests, nTimers, mounted, sent, interimTranscript>>

\* A handler of the push-to-talk client ran to its end
SimStep(m, a, op) ==
    /\ sim' = m
    /\ audio' = a
    /\ lastOp' = op
    /\ UNCHANGED <<wsVars, server, authoritative, lastMsg, prevWorld, replayed>>

\* What a step that calls a send function f of useSimulationSocket is recorded as
SimSendOp(f) == IF SimIsOpen(sim) THEN f ELSE f \o "_dropped"

\* What a step that handles payload `data` in socket.onmessage is recorded as
SimKind(data) ==
    IF "json" \notin DOMAIN data THEN "sim_unparseable"
    ELSE IF data.json.type \notin {"world_update", "agent_message", "error"} THEN "sim_unknown"
    ELSE IF data.json.type = "error" THEN "sim_error"
    ELSE NoOp

\* The push-to-talk App is the root component instead of the store-based App: its
\* mount runs the effect of useSimulationSocket
SimMount ==
    /\ sim.mounted = "no"
    /\ mounted = "no"
    /\ SimStep(useEffectUrl([sim EXCEPT !.mounted = "yes"]), audio, NoOp)

\* The component unmounts: the cleanup of the effect runs
SimUnmount ==
    /\ sim.mounted = "yes"
    /\ SimStep([cleanupUrl(sim) EXCEPT !.mounted = "unmounted"], audio, NoOp)

\* The browser reports socket s of the hook open, or closed
SimSocketOpen(s) ==
    /\ s \in DOMAIN sim.sockets
    /\ sim.sockets[s].readyState = "CONNECTING"
    /\ SimStep(socketOnopen(sim, s), audio, NoOp)

SimSocketClose(s) ==
    /\ s \in DOMAIN sim.sockets
    /\ sim.sockets[s].readyState # "CLOSED"
    /\ SimStep(socketOnclose(sim, s), audio, NoOp)

\* The component renders with another url: the cleanup of the effect of the old url
\* runs, then the effect of the new one
SimUrlChange(url) ==
    /\ sim.mounted = "yes"
    /\ url # sim.url
    /\ SimStep(useEffectUrl([cleanupUrl(sim) EXCEPT !.url = url]), audio, NoOp)

\* A payload arrives on a socket of the hook
SimReceive(data) ==
    /\ \E s \in DOMAIN sim.sockets : sim.sockets[s].readyState \in {"OPEN", "CLOSING"}
    /\ SimStep(socketOnmessage(sim, data), audio, SimKind(data))

\* A component calls sendMessage(text)
SimSendMessage(text) ==
    /\ sim.mounted = "yes"
    /\ SimStep(sendMessage(sim, text), audio, SimSendOp("sendMessage"))

\* Space goes down (the event that is not a repeat), and up; audio.held is the
\* state of the key, which no code reads
KeyDown ==
    /\ sim.mounted = "yes"
    /\ ~audio.held
    /\ SimStep(sim, [handleKeyDown(audio) EXCEPT !.held = TRUE], NoOp)

KeyUp ==
    /\ sim.mounted = "yes"
    /\ audio.held
    /\ SimStep(handleKeyUp(audio, sim)[2], [handleKeyUp(audio, sim)[1] EXCEPT !.held = FALSE],
               IF audio.isRecording THEN SimSendOp("sendJSON") ELSE NoOp)

\* getUserMedia of startRecording() call n settles
GetUserMediaDone(n, outcome) ==
    /\ n \in audio.starting
    /\ SimStep(sim, startRecordingResume(audio, n, outcome), NoOp)

\* processor.onaudioprocess of a connected processor: onData is sendAudio
AudioProcess(n) ==
    /\ n \in audio.processors
    /\ SimStep(sendAudio(sim, "pcm"), audio, SimSendOp("sendAudio"))

----------------------------------------------------------------------------
(* Steps of the server *)

\* A step of the server
ServerStep(v) ==
    /\ server' = v
    /\ lastOp' = NoOp
    /\ UNCHANGED <<wsVars, sim, audio, authoritative, lastMsg, prevWorld, replayed>>

\* The registry's calls; identifiers are not used again after a delete, and a
\* session is deleted between its passes
Create(id) ==
    /\ id \notin server.registry \cup server.deleted
    /\ ServerStep(create(server, id))

Get(id) == ServerStep(get(server, id))

Delete(id) ==
    /\ server.inFlight[id] = {}
    /\ ServerStep(delete(server, id))

Transcript(s, isFinal) ==
    /\ s \in server.registry
    /\ ServerStep(transcript(server, s, isFinal))

Interpret(s, p) == p.stage = "interpret" /\ ServerStep(interpret(server, s, p))

Verify(s, p) == p.stage = "verify" /\ ServerStep(verify(server, s, p))

Execute(s, p) == p.stage = "execute" /\ ServerStep(execute(server, s, p))

\* The collaborator of the stage throws or times out
Fail(s, p) ==
    /\ p.stage \in {"interpret", "verify", "execute"}
    /\ ServerStep(fail(server, s, p))

\* The diff is applied; the apply completes or fails after k of its fields
ApplyDiff(s, p, k) == p.stage = "apply" /\ ServerStep(applyDiff(server, s, p, k))

Broadcast(s, p) == p.stage = "broadcast" /\ ServerStep(broadcast(server, s, p))

----------------------------------------------------------------------------
(* Specifications *)

Outcomes == {"session_id", "no_session_id", "failed"}

Texts == {"hello", "", " "}

Within(maxSockets, maxIds, maxSteps) ==
    /\ Len(sockets) <= maxSockets
    /\ nRequests <= MaxRequests
    /\ nextId.transcripts <= maxIds
    /\ nextId.reasoningChain <= maxSteps
    /\ Len(sent) <= MaxSent

\* The connection layer: every instance, every outcome of session creation
Next ==
    \/ Mount
    \/ \E p \in pending, o \in Outcomes : CreateSessionDone(p, o) /\ Within(MaxSockets, 0, 0)'
    \/ \E s \in DOMAIN sockets : SocketOpen(s) /\ Within(MaxSockets, 0, 0)'
    \/ \E s \in DOMAIN sockets : SocketClose(s) /\ Within(MaxSockets, 0, 0)'
    \/ \E t \in timers : ReconnectTimer(t) /\ Within(MaxSockets, 0, 0)'
    \/ Unmount

Spec == Init /\ [][Next]_vars

\* Reconnection of App's channel: the session requests are answered in the order
\* they were made, and the current socket of App opens and closes at any time
NextReconnect ==
    \/ Mount
    \/ \E p \in pending :
            /\ \A q \in pending : p.id <= q.id
            /\ CreateSessionDone(p, "session_id") /\ Within(MaxAppSockets, 0, 0)'
    \/ \E s \in DOMAIN sockets :
            wsRef["App"] = s /\ SocketOpen(s) /\ Within(MaxAppSockets, 0, 0)'
    \/ \E s \in DOMAIN sockets :
            wsRef["App"] = s /\ SocketClose(s) /\ Within(MaxAppSockets, 0, 0)'
    \/ \E t \in timers : ReconnectTimer(t) /\ Within(MaxAppSockets, 0, 0)'

SpecReconnect == Init /\ [][NextReconnect]_vars

\* The payloads whose handling calls a store action (or throws in one)
StorePayloads == {d \in Payloads : Kind(d) \in {NoOp, "error"}}

\* The store under server messages and user input, over one path of the connection
\* layer (the first session request is answered, the sockets it leads to open)
NextStore ==
    \/ Mount
    \/ \E p \in pending :
            p.id = 1 /\ CreateSessionDone(p, "session_id") /\ Within(MaxStoreSockets, MaxIds, MaxSteps)'
    \/ \E s \in DOMAIN sockets : SocketOpen(s) /\ Within(MaxStoreSockets, MaxIds, MaxSteps)'
    \/ \E d \in StorePayloads : Receive(d) /\ Within(MaxStoreSockets, MaxIds, MaxSteps)'
    \/ \E x \in Texts : Submit(x) /\ Within(MaxStoreSockets, MaxIds, MaxSteps)'
    \/ \E x \in Texts : SpeechResult(x, TRUE) /\ Within(MaxStoreSockets, MaxIds, MaxSteps)'

SpecStore == Init /\ [][NextStore]_vars

\* The two bounded logs under a long run of entries of one kind each
LogPayloads ==
    { [json |-> [type |-> "transcript", text |-> "hello", is_final |-> TRUE]],
      [json |-> [type |-> "reasoning", agent |-> "parser", step |-> "parse", details |-> "d"]] }

NextLog ==
    \/ Mount
    \/ \E p \in pending :
            p.id = 1 /\ CreateSessionDone(p, "session_id") /\ Within(MaxStoreSockets, MaxLogIds, MaxLogSteps)'
    \/ \E s \in DOMAIN sockets : SocketOpen(s) /\ Within(MaxStoreSockets, MaxLogIds, MaxLogSteps)'
    \/ \E d \in LogPayloads : Receive(d) /\ Within(MaxStoreSockets, MaxLogIds, MaxLogSteps)'
    \/ Submit("hello") /\ Within(MaxStoreSockets, MaxLogIds, MaxLogSteps)'

SpecLog == Init /\ [][NextLog]_vars

\* The bounds of the push-to-talk client
SimWithin(maxCalls) == Len(sim.sent) <= MaxSimSent /\ audio.nCalls <= maxCalls

\* Sending, on either client: the send functions called with the socket in every
\* state, the reasoning chain filled by the server, the heartbeat answered
SendPayloads == {[json |-> m] : m \in ReasoningMessages} \cup {[json |-> [type |-> "pong"]]}

NextSend ==
    \/ Mount
    \/ \E p \in pending :
            p.id = 1 /\ CreateSessionDone(p, "session_id") /\ Within(MaxStoreSockets, MaxIds, MaxSteps)'
    \/ \E s \in DOMAIN sockets : SocketOpen(s) /\ Within(MaxStoreSockets, MaxIds, MaxSteps)'
    \/ \E s \in DOMAIN sockets : SocketClose(s) /\ Within(MaxStoreSockets, MaxIds, MaxSteps)'
    \/ \E d \in SendPayloads : Receive(d) /\ Within(MaxStoreSockets, MaxIds, MaxSteps)'
    \/ \E x \in Texts : Submit(x) /\ Within(MaxStoreSockets, MaxIds, MaxSteps)'
    \/ \E x \in Texts, f \in BOOLEAN :
            SpeechResult(x, f) /\ Within(MaxStoreSockets, MaxIds, MaxSteps)'
    \/ \E i \in Instances : Heartbeat(i) /\ Within(MaxStoreSockets, MaxIds, MaxSteps)'
    \/ Unmount
    \/ SimMount
    \/ \E s \in DOMAIN sim.sockets : SimSocketOpen(s)
    \/ \E s \in DOMAIN sim.sockets : SimSocketClose(s)
    \/ SimSendMessage("hello") /\ SimWithin(MaxCalls)'
    \/ KeyDown /\ SimWithin(MaxCalls)'
    \/ \E n \in audio.starting : GetUserMediaDone(n, "recording")
    \/ KeyUp /\ SimWithin(MaxCalls)'
    \/ \E n \in audio.processors : AudioProcess(n) /\ SimWithin(MaxCalls)'

SpecSend == Init /\ [][NextSend]_vars

\* Receiving, on either client: every kind of payload, on sockets that open and close
RecvPayloads ==
    {[json |-> m] : m \in UnknownMessages \cup NpcAudioMessages \cup ErrorMessages
                          \cup TranscriptMessages \cup {[type |-> "pong"]}}
        \cup {[text |-> "not json"]}

NextRecv ==
    \/ Mount
    \/ \E p \in pending :
            p.id = 1 /\ CreateSessionDone(p, "session_id") /\ Within(MaxStoreSockets, MaxIds, MaxSteps)'
    \/ \E s \in DOMAIN sockets : SocketOpen(s) /\ Within(MaxStoreSockets, MaxIds, MaxSteps)'
    \/ \E s \in DOMAIN sockets : SocketClose(s) /\ Within(MaxStoreSockets, MaxIds, MaxSteps)'
    \/ \E d \in RecvPayloads : Receive(d) /\ Within(MaxStoreSockets, MaxIds, MaxSteps)'
    \/ Submit("hello") /\ Within(MaxStoreSockets, MaxIds, MaxSteps)'
    \/ Unmount
    \/ SimMount
    \/ \E s \in DOMAIN sim.sockets : SimSocketOpen(s)
    \/ \E s \in DOMAIN sim.sockets : SimSocketClose(s)
    \/ \E d \in SimPayloads : SimReceive(d)
    \/ SimUnmount

SpecRecv == Init /\ [][NextRecv]_vars

\* The world state under the server's world_state messages and every local action
WorldPayloads ==
    WorldStatePayloads \cup {[json |-> [type |-> "transcript", text |-> "hello", is_final |-> TRUE]]}

NextWorld ==
    \/ Mount
    \/ \E p \in pending :
            p.id = 1 /\ CreateSessionDone(p, "session_id") /\ Within(MaxStoreSockets, MaxIds, MaxSteps)'
    \/ \E s \in DOMAIN sockets : SocketOpen(s) /\ Within(MaxStoreSockets, MaxIds, MaxSteps)'
    \/ \E s \in DOMAIN sockets : SocketClose(s) /\ Within(MaxStoreSockets, MaxIds, MaxSteps)'
    \/ \E t \in timers : ReconnectTimer(t) /\ Within(MaxStoreSockets, MaxIds, MaxSteps)'
    \/ \E d \in WorldPayloads : Receive(d) /\ Within(MaxStoreSockets, MaxIds, MaxSteps)'
    \/ Submit("hello") /\ Within(MaxStoreSockets, MaxIds, MaxSteps)'
    \/ SpeechResult("hello", TRUE) /\ Within(MaxStoreSockets, MaxIds, MaxSteps)'
    \/ \E b \in BOOLEAN : ToggleRecording(b)
    \/ RecognitionError
    \/ Unmount

SpecWorld == Init /\ [][NextWorld]_vars

\* The view model under every type of server message, on a socket that stays open
\* while the user starts and stops recording
ViewPayloads ==
    { [json |-> m] : m \in
        { [type |-> "world_state",
           state |-> [world_time |-> "morning",
                      current_mission |-> [id |-> "m1", is_complete |-> FALSE]]],
          [type |-> "transcript", text |-> "hello", is_final |-> TRUE],
          [type |-> "transcript", text |-> "", is_final |-> TRUE],
          [type |-> "action_result", parsed_action |-> Buy, feedback |-> <<"good">>,
           world_diff |-> [npc_dialogue |-> "Welcome", world_event |-> "sold"]],
          [type |-> "action_result", parsed_action |-> Greet, feedback |-> <<"good", "polite">>,
           world_diff |-> [npc_dialogue |-> NullStr, world_event |-> NullStr]],
          [type |-> "action_result", parsed_action |-> Buy,
           world_diff |-> [npc_dialogue |-> "Welcome", world_event |-> NullStr]],
          [type |-> "reasoning", agent |-> "parser", step |-> "parse", details |-> "d"],
          [type |-> "error", message |-> "boom", recoverable |-> TRUE],
          [type |-> "npc_audio", audio_data |-> "UklGRg", mood |-> "friendly"],
          [type |-> "pong"] } }

NextView ==
    \/ Mount
    \/ \E p \in pending :
            p.id = 1 /\ CreateSessionDone(p, "session_id") /\ Within(MaxStoreSockets, MaxViewIds, MaxSteps)'
    \/ \E s \in DOMAIN sockets : SocketOpen(s) /\ Within(MaxStoreSockets, MaxViewIds, MaxSteps)'
    \/ \E d \in ViewPayloads : Receive(d) /\ Within(MaxStoreSockets, MaxViewIds, MaxSteps)'
    \/ \E b \in BOOLEAN : ToggleRecording(b)

SpecView == Init /\ [][NextView]_vars

\* useSimulationSocket under changes of its url: every socket opens and closes at
\* any time
SimUrls == {WS_URL, "ws://127.0.0.1:8000/ws/replay"}

NextSim ==
    \/ SimMount
    \/ \E u \in SimUrls : SimUrlChange(u) /\ Len(sim'.sockets) <= MaxSimSockets
    \/ \E s \in DOMAIN sim.sockets : SimSocketOpen(s)
    \/ \E s \in DOMAIN sim.sockets : SimSocketClose(s)
    \/ \E d \in SimPayloads : SimReceive(d)
    \/ SimUnmount

SpecSim == Init /\ [][NextSim]_vars

\* The reasoning chain: steps arrive, transcripts are sent final and not final, on
\* sockets that open and close, until the page is left
NextChain ==
    \/ Mount
    \/ \E p \in pending :
            p.id = 1 /\ CreateSessionDone(p, "session_id") /\ Within(MaxStoreSockets, MaxIds, MaxChainSteps)'
    \/ \E s \in DOMAIN sockets : SocketOpen(s) /\ Within(MaxStoreSockets, MaxIds, MaxChainSteps)'
    \/ \E s \in DOMAIN sockets : SocketClose(s) /\ Within(MaxStoreSockets, MaxIds, MaxChainSteps)'
    \/ \E d \in SendPayloads : Receive(d) /\ Within(MaxStoreSockets, MaxIds, MaxChainSteps)'
    \/ Submit("hello") /\ Within(MaxStoreSockets, MaxIds, MaxChainSteps)'
    \/ \E f \in BOOLEAN :
            SpeechResult("hello", f) /\ Within(MaxStoreSockets, MaxIds, MaxChainSteps)'
    \/ \E i \in Instances : Heartbeat(i) /\ Within(MaxStoreSockets, MaxIds, MaxChainSteps)'
    \/ \E b \in BOOLEAN : ToggleRecording(b)
    \/ Unmount

SpecChain == Init /\ [][NextChain]_vars

\* Audio capture in the push-to-talk client: the key goes down and up at any time,
\* getUserMedia settles at any time, and the rest of startRecording() may throw
NextAudio ==
    \/ SimMount
    \/ \E s \in DOMAIN sim.sockets : SimSocketOpen(s)
    \/ KeyDown /\ SimWithin(MaxCaptures)'
    \/ \E n \in audio.starting, o \in CaptureOutcomes : GetUserMediaDone(n, o)
    \/ KeyUp /\ SimWithin(MaxCaptures)'
    \/ \E n \in audio.processors : AudioProcess(n) /\ SimWithin(MaxCaptures)'

SpecAudio == Init /\ [][NextAudio]_vars

\* The server: sessions are created, read and deleted, transcripts arrive for any
\* session at any time, every pass advances stage by stage at its own pace and may
\* fail at every stage
PassStep(s) ==
    \E p \in server.inFlight[s] :
        \/ Interpret(s, p)
        \/ Verify(s, p)
        \/ Execute(s, p)
        \/ Fail(s, p)
        \/ \E k \in 0..Len(WorldFields) : ApplyDiff(s, p, k)
        \/ Broadcast(s, p)

NextServer ==
    \/ \E id \in Sessions : Create(id)
    \/ \E id \in Sessions : Get(id)
    \/ \E id \in Sessions : Delete(id)
    \/ \E s \in Sessions, f \in BOOLEAN :
            Transcript(s, f) /\ server'.nUtterances <= MaxUtterances
    \/ \E s \in Sessions : PassStep(s)

SpecServer == Init /\ [][NextServer]_vars

\* The server with every collaborator call and every stage of a pass in flight
\* completing at some time, by returning or by failing
NextServerLive ==
    \/ \E id \in Sessions : Create(id)
    \/ \E id \in Sessions : Get(id)
    \/ \E id \in Sessions : Delete(id)
    \/ \E s \in Sessions, f \in BOOLEAN :
            Transcript(s, f) /\ server'.nUtterances <= MaxLiveUtterances
    \/ \E s \in Sessions : PassStep(s)

SpecServerLive ==
    Init /\ [][NextServerLive]_vars /\ \A s \in Sessions : WF_vars(PassStep(s))

----------------------------------------------------------------------------
(* Claims *)

LiveSockets == {s \in DOMAIN sockets : sockets[s].readyState \in {"CONNECTING", "OPEN"}}

\* C1: every useWebSocket instance has at most one reconnect timer pending at a time
C1_AtMostOneReconnectTimer ==
    \A i \in Instances : Cardinality({t \in timers : t.inst = i}) <= 1

\* C2: at most one WebSocket in the connecting or open state exists for the session
\* the client holds
C2_OneLiveSocketPerSession ==
    Cardinality({s \in LiveSockets : sockets[s].sid = store.sessionId}) <= 1

\* C3: while a session identifier is held, no step issues a further POST /api/session
C3_NoSessionRequestWhileHeld ==
    [][~FalsySid(store.sessionId) => nRequests' = nRequests]_vars

\* C4: once a connect() has completed (it constructed its socket), the held session
\* identifier is a defined, non-empty token
C4_SessionIdDefined ==
    sockets # << >> => ~FalsySid(store.sessionId)

\* C5: the transcript log never holds more than 50 entries
C5_TranscriptCap == Len(store.transcripts) <= TranscriptKeep

\* C6: the reasoning log never holds more than 20 entries
C6_ReasoningCap == Len(store.reasoningChain) <= ReasoningKeep

\* One append to a log that keeps at most cap entries: below the cap nothing is
\* evicted, at the cap exactly the oldest entry is, and the new entry comes last
FifoAppend(log, log2, cap) ==
    /\ log2 # << >>
    /\ SubSeq(log2, 1, Len(log2) - 1) = IF Len(log) < cap THEN log ELSE Tail(log)

\* C7: every step that changes a bounded log (other than clearing it) is one FIFO
\* append at the log's cap
C7_FifoEviction ==
    [][ /\ store'.transcripts # store.transcripts
            => FifoAppend(store.transcripts, store'.transcripts, TranscriptKeep)
        /\ (store'.reasoningChain # store.reasoningChain /\ store'.reasoningChain # << >>)
            => FifoAppend(store.reasoningChain, store'.reasoningChain, ReasoningKeep)
      ]_vars

\* C8: after a world_state message that carries a state, worldState is that state and
\* mission is its current_mission, or null when it has none
C8_WorldStateReplaced ==
    (lastMsg \in WorldStatePayloads /\ "state" \in DOMAIN lastMsg.json) =>
        /\ store.worldState = lastMsg.json.state
        /\ store.mission =
              IF "current_mission" \in DOMAIN lastMsg.json.state
              THEN lastMsg.json.state.current_mission
              ELSE Null

\* C8 witness: a world_state message replaced a different world state whose mission
\* was set by one that has none
C8_Witness ==
    /\ lastMsg \in WorldStatePayloads
    /\ "state" \in DOMAIN lastMsg.json
    /\ prevWorld.worldState \notin {Null, lastMsg.json.state}
    /\ prevWorld.mission # Null
    /\ store.mission = Null
    /\ store.transcripts # << >>

\* C9: processing again the world_state message that was processed last leaves every
\* field of the store as the first processing left it
C9_WorldStateIdempotent ==
    [][(lastMsg \in WorldStatePayloads /\ Receive(lastMsg)) => store' = store]_vars

\* C9 witness: the same world_state message was processed twice in a row, on a store
\* that other messages had filled
C9_Witness ==
    /\ lastMsg \in WorldStatePayloads
    /\ "state" \in DOMAIN lastMsg.json
    /\ replayed
    /\ store.worldState = lastMsg.json.state
    /\ store.mission # Null
    /\ store.transcripts # << >>

ActionResultPayloads == {[json |-> m] : m \in ActionResultMessages}

\* C10: an action_result message whose handling fails part-way leaves the store as it
\* was before the message
C10_ActionResultAllOrNothing ==
    [][ \A d \in ActionResultPayloads :
            (Receive(d) /\ Throws(d.json)) => store' = store ]_vars

\* C11: a send function called while its socket is not open sends nothing and
\* changes nothing: after sendPing the client is as before, after the two callers of
\* sendTranscript it is as their own statements left it (the player entry added, the
\* interim caption emptied, the reasoning chain not cleared), and after sendMessage, sendAudio and sendJSON the simulation hook is as
\* before
C11_ClosedSendDoesNothing ==
    [][ /\ \A i \in Instances : (Heartbeat(i) /\ ~IsOpen(W, i)) => W' = W
        /\ \A x \in Texts :
              (Submit(x) /\ Trim(x) # "" /\ store.isConnected /\ ~IsOpen(W, "TextInput"))
                  => W' = addTranscript(W, [type |-> "player", text |-> Trim(x)])
        /\ \A x \in Texts :
              (SpeechResult(x, TRUE) /\ Trim(x) # "" /\ ~IsOpen(W, "MicrophoneButton"))
                  => W' = addTranscript([W EXCEPT !.interimTranscript = ""],
                                        [type |-> "player", text |-> Trim(x)])
        /\ (SimSendMessage("hello") /\ ~SimIsOpen(sim)) => sim' = sim
        /\ (KeyUp /\ audio.isRecording /\ ~SimIsOpen(sim)) => sim' = sim
        /\ \A n \in audio.processors : (AudioProcess(n) /\ ~SimIsOpen(sim)) => sim' = sim
      ]_vars

\* C11 witness: a final transcript was handed to sendTranscript while the socket of
\* its instance was not open, with steps in the reasoning chain
C11_Witness ==
    /\ lastOp = "dropped"
    /\ store.reasoningChain # << >>
    /\ sent = << >>

\* C12: a message whose type the client has no case for changes nothing: the store,
\* the sockets and the timers are as before it (so the connection stays open and a
\* later message is handled as if this one had not arrived), on both clients
C12_UnknownTypeIgnored ==
    [][ /\ \A d \in RecvPayloads : (Receive(d) /\ Kind(d) = "unknown") => W' = W
        /\ \A d \in SimPayloads : (SimReceive(d) /\ SimKind(d) = "sim_unknown") => sim' = sim
      ]_vars

\* C12 witness: a message of an unknown type was handled on an open socket, with
\* entries in the transcript log
C12_Witness ==
    /\ lastOp = "unknown"
    /\ store.transcripts # << >>
    /\ \E i \in Instances : IsOpen(W, i)

\* C13: a payload that JSON.parse rejects changes nothing: the store is unchanged, no
\* socket is closed, no reconnect timer is scheduled (so a later message is handled
\* as if this one had not arrived), on both clients
C13_UnparseableDropped ==
    [][ /\ \A d \in RecvPayloads : (Receive(d) /\ Kind(d) = "unparseable") => W' = W
        /\ \A d \in SimPayloads :
              (SimReceive(d) /\ SimKind(d) = "sim_unparseable") => sim' = sim
      ]_vars

\* C13 witness: an unparseable payload was handled while the store said connected and
\* held transcript entries, and no reconnect timer is pending
C13_Witness ==
    /\ lastOp = "unparseable"
    /\ store.isConnected
    /\ store.transcripts # << >>
    /\ timers = {}

\* C14: a heartbeat tick of a mounted instance sends one ping when the socket of the
\* instance is open and does nothing when it is not; a pong changes nothing; and the
\* client closes a socket only when it unmounts, never for a missing pong
C14_HeartbeatNeverCloses ==
    [][ /\ \A i \in Instances :
              Heartbeat(i) =>
                  W' = IF IsOpen(W, i)
                       THEN [W EXCEPT !.sent = Append(@, [socket |-> wsRef[i], type |-> "ping"])]
                       ELSE W
        /\ Receive([json |-> [type |-> "pong"]]) => W' = W
        /\ (\E s \in DOMAIN sockets :
                sockets[s].readyState # "CLOSING" /\ sockets'[s].readyState = "CLOSING")
              => Unmount
      ]_vars

\* C14 witness: a ping went out on a socket, a later tick found the socket of another
\* instance not open and sent nothing, and the first socket is still open
C14_Witness ==
    /\ lastOp = "ping_dropped"
    /\ Len(sent) = 1
    /\ sent[1].type = "ping"
    /\ sockets[sent[1].socket].readyState = "OPEN"

NpcAudioPayloads == {[json |-> m] : m \in NpcAudioMessages}

\* C15: handling an npc_audio message changes no field of the store and nothing else
\* of the client, whether its audio decodes, fails to decode or is empty; the handler
\* is one step that does not wait for playback, and the state it leaves is the one a
\* later message is handled in
C15_NpcAudioFireAndForget ==
    [][ \A d \in NpcAudioPayloads : Receive(d) => W' = W ]_vars

\* C15 witness: an npc_audio message whose audio does not decode was handled, with
\* entries in the transcript log and the socket still open
C15_Witness ==
    /\ lastOp = "npc_audio_failed"
    /\ store.transcripts # << >>
    /\ \E i \in Instances : IsOpen(W, i)

\* C16: the store's worldState is always null (no world_state message handled yet) or
\* the state carried by the last world_state message whose handling ran to its end,
\* and no step other than the handling of a message changes it
C16_WorldStateFromServer ==
    /\ [](store.worldState = authoritative)
    /\ [][(~ \E d \in WorldPayloads : Receive(d)) => store'.worldState = store.worldState]_vars

\* C16 witness: a world_state message replaced an earlier, different world state, the
\* user submitted text, the client disconnected, and worldState is still that state
C16_Witness ==
    /\ mounted = "unmounted"
    /\ authoritative # Null
    /\ store.worldState = authoritative
    /\ prevWorld.worldState \notin {Null, authoritative}
    /\ \E k \in DOMAIN sent : sent[k].type = "transcript"

\* C17: whenever isRecording is false and no startRecording() call is pending, no
\* microphone track is live, no audio context is open and no processing node is
\* connected
C17_CaptureReleased ==
    (~audio.isRecording /\ audio.starting = {})
        => (audio.tracks = {} /\ audio.contexts = {} /\ audio.processors = {})

C19_ErrorSurfaced ==
    [][ /\ \A d \in RecvPayloads :
              (Receive(d) /\ Kind(d) = "error") =>
                  W' = addTranscript(W, [type |-> "system",
                                         text |-> "Error: " \o d.json.message])
        /\ \A d \in SimPayloads :
              (SimReceive(d) /\ SimKind(d) = "sim_error") =>
                  /\ sim'.feedback # sim.feedback
                  /\ sim'.sockets = sim.sockets
                  /\ sim'.isConnected = sim.isConnected
      ]_vars

\* C20: every session has at most one pass in flight, and every diff applied to a
\* session's World State was computed from the World State as the write before it
\* left it (no write of another pass came between a pass's read and its write)
C20_OnePassInFlight ==
    \A s \in Sessions :
        /\ Cardinality(server.inFlight[s]) <= 1
        /\ \A k \in DOMAIN server.writes[s] : server.writes[s][k].base = k - 1

\* C20 witness: two sessions each have a pass in flight at the same time, and in one
\* of them a final transcript waits in the queue behind the second pass of the session
C20_Witness ==
    /\ server.inFlight["s1"] # {}
    /\ server.inFlight["s2"] # {}
    /\ server.queue["s1"] # << >>
    /\ server.writes["s1"] # << >>

\* Final transcript n waits in the queue of session s
Queued(s, n) == \E i \in DOMAIN server.queue[s] : server.queue[s][i] = n

\* A pass for final transcript n of session s is in flight
Running(s, n) == \E p \in server.inFlight[s] : p.utterance = n

Fails(s, p) ==
    \/ Fail(s, p)
    \/ \E k \in 0..(Len(WorldFields) - 1) : ApplyDiff(s, p, k)

\* C22: a step in which a pass fails sends one error message with the recoverable
\* flag to the session's client, leaves the session registered and its World State
\* and applied diffs as they were, and releases the session: the failed pass is no
\* longer in flight, the transcript at the head of the queue starts its pass, and
\* with nothing queued the next final transcript starts a pass at once
C22_FailureRecoverable ==
    [][\A s \in Sessions : \A p \in server.inFlight[s] :
        Fails(s, p) =>
            /\ server'.emitted = <<[to |-> s, type |-> "error", message |-> p.stage,
                                   recoverable |-> TRUE]>>
            /\ s \in server'.registry
            /\ server'.world = server.world
            /\ server'.writes = server.writes
            /\ p \notin server'.inFlight[s]
            /\ IF server.queue[s] = << >>
               THEN /\ server'.inFlight[s] = {}
                    /\ transcript(server', s, TRUE).inFlight[s] # {}
               ELSE /\ \E q \in server'.inFlight[s] : q.utterance = Head(server.queue[s])
                    /\ server'.queue[s] = Tail(server.queue[s])]_vars

\* C22 witness: a pass of a session that has a diff applied has just failed, and the
\* queued transcript of the session is in its pass
C22_Witness ==
    /\ server.emitted = <<[to |-> "s1", type |-> "error", message |-> "verify",
                           recoverable |-> TRUE]>>
    /\ server.writes["s1"] # << >>
    /\ \E p \in server.inFlight["s1"] : p.stage = "interpret"

\* C23: in every state the World State of every session is the state before any
\* diff or the whole of the diff applied last, never a part of a diff, so no reader
\* can see a half-applied diff; and a step in which the apply of a diff fails
\* part-way leaves the World State of the session as it was before the apply
C23_ApplyDiffAtomic ==
    /\ [](\A s \in Sessions :
            IF server.writes[s] = << >> THEN server.world[s] = InitialWorld
            ELSE \A f \in DOMAIN server.world[s] :
                    server.world[s][f] =
                        server.writes[s][Len(server.writes[s])].utterance)
    /\ [][\A s \in Sessions : \A p \in server.inFlight[s] :
            (\E k \in 0..(Len(WorldFields) - 1) : ApplyDiff(s, p, k)) =>
                server'.world = server.world]_vars

\* C23 witness: the apply of a diff to a World State that an earlier diff wrote has
\* just failed
C23_Witness ==
    /\ server.emitted = <<[to |-> "s1", type |-> "error", message |-> "apply",
                           recoverable |-> TRUE]>>
    /\ server.writes["s1"] # << >>
    /\ server.world["s1"] # InitialWorld

\* C24: delete of an identifier that is not registered, because it was never
\* created or because it was deleted before, answers not-found and changes nothing
\* else: the registry, and the passes, queue and World State of every session, are
\* as before, and get, create and delete answer afterwards as they would have before
C24_DeleteAbsentNotFound ==
    [][\A id \in Sessions :
        (Delete(id) /\ id \notin server.registry) =>
            /\ server'.reply = [op |-> "delete", id |-> id, outcome |-> "not_found"]
            /\ server' = [server EXCEPT !.reply = server'.reply, !.emitted = << >>]
            /\ \A j \in Sessions :
                /\ get(server', j).reply = get(server, j).reply
                /\ create(server', j).registry = server.registry \cup {j}
                /\ delete(server', j).reply = delete(server, j).reply]_vars

\* C24 witness: delete of a session that was deleted before has just answered
\* not-found while the other session has a diff applied and a pass in flight
C24_Witness ==
    /\ server.reply = [op |-> "delete", id |-> "s1", outcome |-> "not_found"]
    /\ "s1" \in server.deleted
    /\ server.inFlight["s2"] # {}
    /\ server.writes["s2"] # << >>

\* The entries of a log without their ids
Strip(log) == [i \in DOMAIN log |-> [type |-> log[i].type, text |-> log[i].text]]

\* `new` is `old`, or an end of it, followed by the entries `added`
AppendedTo(old, added, new) ==
    /\ Len(new) >= Len(added)
    /\ SubSeq(new, Len(new) - Len(added) + 1, Len(new)) = added
    /\ \E k \in 0..Len(old) :
            SubSeq(new, 1, Len(new) - Len(added)) = SubSeq(old, k + 1, Len(old))

\* The transcript entries an action_result message stands for: the NPC dialogue,
\* then the world event, then the feedback strings
EntriesOf(m) ==
    LET d == WorldDiffField(m, "npc_dialogue")
        e == WorldDiffField(m, "world_event")
    IN  (IF d \in {NullStr, ""} THEN << >> ELSE <<[type |-> "npc", text |-> d]>>)
        \o (IF e \in {NullStr, ""} THEN << >> ELSE <<[type |-> "system", text |-> e]>>)
        \o (IF "feedback" \in DOMAIN m
            THEN [i \in DOMAIN m.feedback |-> [type |-> "feedback", text |-> m.feedback[i]]]
            ELSE << >>)

\* C25: after an action_result message lastAction and lastFeedback are the message's
\* parsed_action and feedback, npcDialogue is the message's dialogue when it has one
\* and is unchanged when it has none, and the transcript log is the log before (or
\* an end of it) followed by the dialogue as an 'npc' entry, the world event as a
\* 'system' entry and one 'feedback' entry per feedback string, in that order
C25_ActionResultOrder ==
    [][\A d \in ActionResultPayloads :
        Receive(d) =>
            LET m == d.json
            IN  /\ store'.lastAction = m.parsed_action
                /\ store'.lastFeedback =
                        IF "feedback" \in DOMAIN m THEN [items |-> m.feedback] ELSE Undefined
                /\ store'.npcDialogue =
                        IF WorldDiffField(m, "npc_dialogue") \in {NullStr, ""}
                        THEN store.npcDialogue
                        ELSE WorldDiffField(m, "npc_dialogue")
                /\ AppendedTo(Strip(store.transcripts), EntriesOf(m),
                              Strip(store'.transcripts))]_vars

\* C25 witness: a message with dialogue, world event and feedback was processed
\* when the transcript log already had an entry
C25_Witness ==
    /\ store.lastAction = Buy
    /\ store.npcDialogue = "Welcome"
    /\ Len(store.transcripts) = 4
    /\ Strip(SubSeq(store.transcripts, 2, 4)) =
            <<[type |-> "npc", text |-> "Welcome"], [type |-> "system", text |-> "sold"],
              [type |-> "feedback", text |-> "good"]>>

\* The fields of the store that a message of each type may change
MayChange(type) ==
    CASE type = "world_state" -> {"worldState", "mission"}
      [] type = "reasoning" -> {"reasoningChain"}
      [] type \in {"transcript", "error"} -> {"transcripts"}
      [] type = "action_result" -> {"lastAction", "lastFeedback", "npcDialogue", "transcripts"}
      [] OTHER -> {}

\* C26: a message changes no field of the store but those of its type (a pong or
\* npc_audio message none, and none changes sessionId, isConnected or isRecording),
\* and the two logs change only by entries added at their end
C26_MessageFrame ==
    [][\A d \in ViewPayloads :
        Receive(d) =>
            /\ \A f \in DOMAIN store \ MayChange(d.json.type) : store'[f] = store[f]
            /\ \E n \in 0..3 :
                  /\ Len(store'.transcripts) >= n
                  /\ AppendedTo(store.transcripts,
                                SubSeq(store'.transcripts, Len(store'.transcripts) - n + 1,
                                       Len(store'.transcripts)),
                                store'.transcripts)
            /\ \E n \in 0..1 :
                  /\ Len(store'.reasoningChain) >= n
                  /\ AppendedTo(store.reasoningChain,
                                SubSeq(store'.reasoningChain, Len(store'.reasoningChain) - n + 1,
                                       Len(store'.reasoningChain)),
                                store'.reasoningChain)]_vars

\* C26 witness: messages were processed while the user was recording, among them a
\* world_state, a reasoning and an action_result message
C26_Witness ==
    /\ store.isRecording
    /\ store.isConnected
    /\ store.worldState # Null
    /\ store.reasoningChain # << >>
    /\ store.lastAction = Greet
    /\ Len(store.transcripts) = 3

\* C27: once the hooks are unmounted (their cleanup has called disconnect()) no
\* reconnect timer is pending, and no later step schedules a timer, opens a socket
\* or sends a message
C27_StaysDown ==
    /\ [](mounted = "unmounted" => timers = {})
    /\ [][mounted = "unmounted" =>
            /\ timers' \subseteq timers
            /\ Len(sockets') = Len(sockets)
            /\ sent' = sent]_vars

\* C28: when the current socket of a mounted instance closes, a reconnect attempt of
\* that instance follows: in the state after the close event a reconnect timer of
\* the instance is pending, or a connect() of the instance is in progress or has
\* already put a new socket in the place of the closed one
C28_CloseSchedulesReconnect ==
    [][\A s \in DOMAIN sockets :
        (SocketClose(s) /\ mounted = "yes" /\ wsRef[sockets[s].owner] = s) =>
            \/ \E t \in timers' : t.inst = sockets[s].owner
            \/ \E p \in pending' : p.inst = sockets[s].owner
            \/ wsRef'[sockets[s].owner] # s]_vars

\* C29: the store's isConnected is true exactly when the current socket of a
\* useWebSocket instance is open: it is not true while no instance's current socket
\* is open, and not false while one is
C29_ConnectedIffOpen ==
    store.isConnected = (\E i \in Instances : IsOpen(W, i))

\* C30: while useSimulationSocket is mounted and the socket of its current url is
\* open, isConnected is true; and once it is unmounted none of its sockets is open
\* or connecting
C30_SimConnectedCurrentUrl ==
    /\ (sim.mounted = "yes" /\ SimIsOpen(sim)) => sim.isConnected
    /\ sim.mounted = "unmounted" =>
            \A s \in DOMAIN sim.sockets :
                sim.sockets[s].readyState \notin {"CONNECTING", "OPEN"}

\* C31: a step in which the user submits text or finishes a spoken utterance adds a
\* 'player' entry to the transcript log only when it also hands one transcript
\* message to the socket: with the socket of the component's useWebSocket instance
\* not open the log is left as it was
C31_PlayerEntryOnlyWhenSent ==
    [][\A x \in Texts :
        /\ (Submit(x) /\ ~IsOpen(W, "TextInput")) =>
                store'.transcripts = store.transcripts
        /\ (SpeechResult(x, TRUE) /\ ~IsOpen(W, "MicrophoneButton")) =>
                store'.transcripts = store.transcripts
        /\ ((Submit(x) \/ SpeechResult(x, TRUE)) /\ store'.transcripts # store.transcripts) =>
                Len(sent') = Len(sent) + 1]_vars

\* This step hands a final transcript message to a socket
FinalSent ==
    /\ Len(sent') = Len(sent) + 1
    /\ sent'[Len(sent')].type = "transcript"
    /\ sent'[Len(sent')].is_final

C33_ReleaseCommitsOnce ==
    /\ [](~audio.held => (~audio.isRecording /\ audio.processors = {}))
    /\ [][/\ (KeyUp /\ SimIsOpen(sim)) =>
                sim'.sent = Append(sim.sent, [socket |-> sim.ws, json |-> [type |-> "commit"]])
          /\ ((\E n \in audio.processors : AudioProcess(n)) /\ sim'.sent # sim.sent) =>
                audio.held]_vars

====
